---- MODULE Spec2Model ----
(***************************************************************************)
(* URL shortener (app/main.py): the url_map table, the three request       *)
(* handlers that write it, create_short_url, redirect_to_url and           *)
(* deactivate_url, and get_stats, which reads it.  Every `await conn.<statement>` of a handler is one      *)
(* atomic step against the table (PostgreSQL autocommit, one statement per *)
(* transaction); handlers of concurrent requests interleave between their  *)
(* statements.                                                             *)
(***************************************************************************)
EXTENDS Integers, Sequences, FiniteSets

\* ---------------------------------------------------------------- bounds
\* Number of HTTP requests served in one behaviour.
NumReqs == 3

Reqs == 1..NumReqs

\* The strings generate_short_url can return (stand-in for the 62^6 codes).
GenCodes == {"a", "b"}

\* custom_path values of a request body: absent (None) is <<>>, a string s
\* is <<s>>; the empty string is a legal JSON value of the field.
CustomPaths == {<<>>, <<"">>} \cup {<<c>> : c \in GenCodes}

\* Path parameters of GET /{short_url} and DELETE /{short_url}.
PathCodes == GenCodes

\* Validated url_data.url objects (pydantic HttpUrl), as host and path.
Urls == {[host |-> "x", path |-> "/"], [host |-> "x", path |-> "/p"]}

\* skip and limit of GET /stats/ (skip >= 0, 1 <= limit <= 100): the
\* defaults.
Pages == {[skip |-> 0, limit |-> 10]}

HTTP_307_TEMPORARY_REDIRECT == 307

VARIABLES
    url_map,     \* the rows of table url_map
    id_seq,      \* last value of the SERIAL sequence of url_map.id
    clock,       \* the wall clock, in readings of datetime.utcnow() so far
    pc,          \* per request: the statement the handler is about to run
    call,        \* per request: the handler and its arguments
    short_url,   \* per request: the handler's local short_url
    db_url,      \* per request: the handler's local db_url (<<>> is None)
    outcome,     \* per request: the HTTP response, once the handler has ended
    urls,        \* per request: get_stats' local urls
    total_urls,  \* per request: get_stats' local total_urls
    seen         \* history: the totals of every state url_map has been in

vars == <<url_map, id_seq, clock, pc, call, short_url, db_url, outcome,
          urls, total_urls, seen>>

\* ------------------------------------------------------------ the table
\* str(url_data.url): the text of a validated URL.
StrUrl(u) == "http://" \o u.host \o u.path

\* SELECT * FROM url_map WHERE short_url = $1
RowsWith(code) == {row \in url_map : row.short_url = code}

\* conn.fetchrow of that SELECT: None (<<>>) or one matching row.
FetchRow(code) ==
    IF RowsWith(code) = {} THEN {<<>>} ELSE {<<row>> : row \in RowsWith(code)}

\* SELECT SUM(visits) over rows (0 for no row, where SQL gives NULL).
RECURSIVE SumVisits(_)
SumVisits(rows) ==
    IF rows = {} THEN 0
    ELSE LET row == CHOOSE x \in rows : TRUE
         IN row.visits + SumVisits(rows \ {row})

\* The number of rows and the sum of visits of one state of the table.
Totals(rows) == [count |-> Cardinality(rows), visits |-> SumVisits(rows)]

\* Mutant: the table is created without UNIQUE on short_url.
UniqueViolationNever(code) == FALSE

\* The UNIQUE constraint on url_map.short_url, as the INSERT evaluates it.
UniqueViolation(code) == RowsWith(code) # {}

\* Mutant: the INSERT binds short_url and original_url the wrong way round.
NewRowSwapped(id, code, url, created_at) ==
    [id |-> id, short_url |-> StrUrl(url), original_url |-> code,
     created_at |-> created_at, visits |-> 0, is_active |-> TRUE]

\* The row the INSERT statement of create_short_url builds.
NewRow(id, code, url, created_at) ==
    [id |-> id, short_url |-> code, original_url |-> StrUrl(url),
     created_at |-> created_at, visits |-> 0, is_active |-> TRUE]

\* ------------------------------------------------------------ responses
NoOutcome == [status |-> 0, detail |-> "", body |-> <<>>]

\* The dictionary create_short_url and deactivate_url return.
URLResponse(row) ==
    [short_url |-> row.short_url, original_url |-> row.original_url,
     created_at |-> row.created_at, visits |-> row.visits]

Ok(row) == [status |-> 200, detail |-> "", body |-> <<URLResponse(row)>>]

HTTPException(status_code, detail) ==
    [status |-> status_code, detail |-> detail, body |-> <<>>]

\* An exception no handler catches: asyncpg's UniqueViolationError leaves
\* create_short_url and the framework answers 500.
Unhandled(exc) == [status |-> 500, detail |-> exc, body |-> <<>>]

Redirect(location) ==
    [status |-> HTTP_307_TEMPORARY_REDIRECT, detail |-> "", body |-> <<location>>]

\* Mutant: `if url_data.custom_path is not None`.
TruthyNotNone(cp) == cp # <<>>

\* Python truthiness of url_data.custom_path.
Truthy(cp) == cp # <<>> /\ cp[1] # ""

NoCall == [op |-> "none", url |-> <<>>, custom_path |-> <<>>, path |-> "",
           page |-> <<>>]

Init ==
    /\ url_map = {}
    /\ id_seq = 0
    /\ clock = 0
    /\ pc = [r \in Reqs |-> "idle"]
    /\ call = [r \in Reqs |-> NoCall]
    /\ short_url = [r \in Reqs |-> ""]
    /\ db_url = [r \in Reqs |-> <<>>]
    /\ outcome = [r \in Reqs |-> NoOutcome]
    /\ urls = [r \in Reqs |-> <<>>]
    /\ total_urls = [r \in Reqs |-> 0]
    /\ seen = {Totals({})}

\* Requests are numbered in the order they arrive.
Arrives(r) == pc[r] = "idle" /\ \A q \in Reqs : q < r => pc[q] # "idle"

\* The handler returns or raises: its locals are gone, the response is sent.
End(r, out) ==
    /\ pc' = [pc EXCEPT ![r] = "done"]
    /\ outcome' = [outcome EXCEPT ![r] = out]
    /\ short_url' = [short_url EXCEPT ![r] = ""]
    /\ db_url' = [db_url EXCEPT ![r] = <<>>]
    /\ urls' = [urls EXCEPT ![r] = <<>>]
    /\ total_urls' = [total_urls EXCEPT ![r] = 0]

Goto(r, label) ==
    /\ pc' = [pc EXCEPT ![r] = label]
    /\ UNCHANGED outcome

\* Assignments to the handler's locals, where the handler goes on.
Keep(r, code, row) ==
    /\ short_url' = [short_url EXCEPT ![r] = code]
    /\ db_url' = [db_url EXCEPT ![r] = row]
    /\ UNCHANGED <<urls, total_urls>>

\* The table has a new state: its totals join the history.
Written == seen' = seen \cup {Totals(url_map')}

\* ----------------------------------------------------- create_short_url
\* Mutant: the existence check looks at active rows only.
CheckCustomActive(r, code) ==
    IF \E row \in RowsWith(code) : row.is_active
      THEN End(r, HTTPException(400, "Custom short URL already in use"))
      ELSE Goto(r, "insert") /\ Keep(r, code, <<>>)

\* Custom path: SELECT the path, 400 if a row has it.
CheckCustom(r, code) ==
    \E existing_url \in FetchRow(code) :
        IF existing_url # <<>>
          THEN End(r, HTTPException(400, "Custom short URL already in use"))
          ELSE Goto(r, "insert") /\ Keep(r, code, <<>>)

\* One turn of `while True`: generate a candidate, SELECT it, break if free.
GenerateTurn(r) ==
    \E candidate \in GenCodes :
        \E existing_url \in FetchRow(candidate) :
            /\ Keep(r, candidate, <<>>)
            /\ IF existing_url = <<>>
                 THEN Goto(r, "insert")
                 ELSE Goto(r, "generate")

\* POST /shorten is served up to its first SELECT: the handler branches on
\* url_data.custom_path.
CreateCall(r) ==
    /\ Arrives(r)
    /\ \E u \in Urls, cp \in CustomPaths :
        /\ call' = [call EXCEPT ![r] =
                      [op |-> "create", url |-> <<u>>, custom_path |-> cp, path |-> "", page |-> <<>>]]
        /\ IF Truthy(cp) THEN CheckCustom(r, cp[1]) ELSE GenerateTurn(r)
    /\ UNCHANGED <<url_map, id_seq, clock, seen>>

\* A further turn of the loop, after a candidate that was taken.
CreateGenerate(r) ==
    /\ pc[r] = "generate"
    /\ GenerateTurn(r)
    /\ UNCHANGED <<url_map, id_seq, clock, call, seen>>

\* Mutant: INSERT ... ON CONFLICT (short_url) DO UPDATE SET original_url,
\* which answers a collision with the overwritten row.
InsertRowUpsert(r, created_at) ==
    LET row == NewRow(id_seq + 1, short_url[r], call[r].url[1], created_at)
        upserted == {IF old.short_url = short_url[r]
                       THEN [old EXCEPT !.original_url = row.original_url]
                       ELSE old : old \in url_map}
    IN
    /\ id_seq' = id_seq + 1
    /\ IF UniqueViolation(short_url[r])
         THEN /\ url_map' = upserted
              /\ \E new \in {x \in upserted : x.short_url = short_url[r]} : End(r, Ok(new))
         ELSE /\ url_map' = url_map \cup {row}
              /\ End(r, Ok(row))

\* Mutant: the row is written first and the duplicate noticed afterwards,
\* with nothing rolled back.
InsertRowThenCheck(r, created_at) ==
    LET row == NewRow(id_seq + 1, short_url[r], call[r].url[1], created_at) IN
    /\ id_seq' = id_seq + 1
    /\ url_map' = url_map \cup {row}
    /\ IF UniqueViolation(short_url[r])
         THEN End(r, Unhandled("UniqueViolationError"))
         ELSE End(r, Ok(row))

\* INSERT ... RETURNING: the sequence advances, then the UNIQUE constraint
\* either rejects the row (UniqueViolationError, uncaught) or the row is in.
InsertRow(r, created_at) ==
    LET row == NewRow(id_seq + 1, short_url[r], call[r].url[1], created_at) IN
    /\ id_seq' = id_seq + 1
    /\ IF UniqueViolation(short_url[r])
         THEN /\ UNCHANGED url_map
              /\ End(r, Unhandled("UniqueViolationError"))
         ELSE /\ url_map' = url_map \cup {row}
              /\ End(r, Ok(row))

\* datetime.utcnow(): every reading is later than the one before.
UtcNow == clock + 1

CreateInsert(r) ==
    /\ pc[r] = "insert"
    /\ clock' = UtcNow
    /\ InsertRow(r, UtcNow)
    /\ Written
    /\ UNCHANGED call

\* ------------------------------------------------------ redirect_to_url
\* Mutant: `if not db_url`, the is_active test forgotten.
MissingRowOnly(row) == row = <<>>

\* `if not db_url or not db_url["is_active"]`
Missing(row) == row = <<>> \/ ~row[1].is_active

\* SELECT the row, 404 if there is none or it is inactive.
Lookup(r, code) ==
    \E row \in FetchRow(code) :
        IF Missing(row)
          THEN End(r, HTTPException(404, "URL not found"))
          ELSE Goto(r, "increment") /\ Keep(r, code, row)

\* GET /{short_url} is served up to its SELECT.
RedirectCall(r) ==
    /\ Arrives(r)
    /\ \E code \in PathCodes :
        /\ call' = [call EXCEPT ![r] =
                      [op |-> "redirect", url |-> <<>>, custom_path |-> <<>>, path |-> code, page |-> <<>>]]
        /\ Lookup(r, code)
    /\ UNCHANGED <<url_map, id_seq, clock, seen>>

\* Mutant: UPDATE url_map SET visits = $2, with $2 = db_url["visits"] + 1.
IncrementFetched(code, fetched) ==
    {IF row.short_url = code
       THEN [row EXCEPT !.visits = fetched.visits + 1]
       ELSE row : row \in url_map}

\* Mutant: UPDATE url_map SET visits = visits + 1, the WHERE forgotten.
IncrementAll(code, fetched) ==
    {[row EXCEPT !.visits = row.visits + 1] : row \in url_map}

\* UPDATE url_map SET visits = visits + 1 WHERE short_url = $1
IncrementVisits(code, fetched) ==
    {IF row.short_url = code
       THEN [row EXCEPT !.visits = row.visits + 1]
       ELSE row : row \in url_map}

RedirectIncrement(r) ==
    /\ pc[r] = "increment"
    /\ url_map' = IncrementVisits(short_url[r], db_url[r][1])
    /\ End(r, Redirect(db_url[r][1].original_url))
    /\ Written
    /\ UNCHANGED <<id_seq, clock, call>>

\* ------------------------------------------------------- deactivate_url
\* Mutant: an inactive row is answered like a missing one.
FindActive(r, code) ==
    \E row \in FetchRow(code) :
        IF row = <<>> \/ ~row[1].is_active
          THEN End(r, HTTPException(404, "URL not found"))
          ELSE Goto(r, "deactivate") /\ Keep(r, code, row)

\* SELECT the row, 404 if there is none.
Find(r, code) ==
    \E row \in FetchRow(code) :
        IF row = <<>>
          THEN End(r, HTTPException(404, "URL not found"))
          ELSE Goto(r, "deactivate") /\ Keep(r, code, row)

\* DELETE /{short_url} is served up to its SELECT.
DeactivateCall(r) ==
    /\ Arrives(r)
    /\ \E code \in PathCodes :
        /\ call' = [call EXCEPT ![r] =
                      [op |-> "deactivate", url |-> <<>>, custom_path |-> <<>>, path |-> code, page |-> <<>>]]
        /\ Find(r, code)
    /\ UNCHANGED <<url_map, id_seq, clock, seen>>

\* Mutant: UPDATE url_map SET is_active = FALSE, the WHERE forgotten.
SetInactiveAll(code) ==
    {[row EXCEPT !.is_active = FALSE] : row \in url_map}

\* Mutant: SET is_active = NOT is_active.
SetInactiveToggle(code) ==
    {IF row.short_url = code
       THEN [row EXCEPT !.is_active = ~row.is_active]
       ELSE row : row \in url_map}

\* Mutant: SET is_active = FALSE, visits = 0.
SetInactiveReset(code) ==
    {IF row.short_url = code
       THEN [row EXCEPT !.is_active = FALSE, !.visits = 0]
       ELSE row : row \in url_map}

\* UPDATE url_map SET is_active = FALSE WHERE short_url = $1 RETURNING *
SetInactive(code) ==
    {IF row.short_url = code
       THEN [row EXCEPT !.is_active = FALSE]
       ELSE row : row \in url_map}

DeactivateUpdate(r) ==
    /\ pc[r] = "deactivate"
    /\ url_map' = SetInactive(short_url[r])
    /\ \E updated_url \in {row \in SetInactive(short_url[r]) : row.short_url = short_url[r]} :
        End(r, Ok(updated_url))
    /\ Written
    /\ UNCHANGED <<id_seq, clock, call>>

\* ------------------------------------------------------------ get_stats
\* ORDER BY created_at DESC
RECURSIVE NewestFirst(_)
NewestFirst(rows) ==
    IF rows = {} THEN <<>>
    ELSE LET newest == CHOOSE x \in rows :
                          \A y \in rows : y.created_at <= x.created_at
         IN <<newest>> \o NewestFirst(rows \ {newest})

\* SELECT * FROM url_map ORDER BY created_at DESC OFFSET $1 LIMIT $2
FetchPage(skip, limit) ==
    LET all == NewestFirst(url_map)
        last == IF skip + limit < Len(all) THEN skip + limit ELSE Len(all)
    IN SubSeq(all, skip + 1, last)

RECURSIVE UrlList(_)
UrlList(rows) ==
    IF rows = <<>> THEN <<>> ELSE <<URLResponse(Head(rows))>> \o UrlList(Tail(rows))

\* The dictionary get_stats returns.
URLStats(url_list, count, visits) ==
    [status |-> 200, detail |-> "",
     body |-> <<[urls |-> url_list, total_urls |-> count, total_visits |-> visits]>>]

\* GET /stats/ is served up to its first SELECT, the page of rows.
StatsCall(r) ==
    /\ Arrives(r)
    /\ \E page \in Pages :
        /\ call' = [call EXCEPT ![r] =
                      [op |-> "stats", url |-> <<>>, custom_path |-> <<>>, path |-> "",
                       page |-> <<page>>]]
        /\ urls' = [urls EXCEPT ![r] = FetchPage(page.skip, page.limit)]
    /\ Goto(r, "count")
    /\ UNCHANGED <<url_map, id_seq, clock, short_url, db_url, total_urls, seen>>

\* SELECT COUNT(*) FROM url_map
StatsCount(r) ==
    /\ pc[r] = "count"
    /\ total_urls' = [total_urls EXCEPT ![r] = Cardinality(url_map)]
    /\ Goto(r, "sum")
    /\ UNCHANGED <<url_map, id_seq, clock, call, short_url, db_url, urls, seen>>

\* SELECT SUM(visits) FROM url_map, None read as 0, and the response.
StatsSum(r) ==
    /\ pc[r] = "sum"
    /\ End(r, URLStats(UrlList(urls[r]), total_urls[r], SumVisits(url_map)))
    /\ UNCHANGED <<url_map, id_seq, clock, call, seen>>

\* ------------------------------------------------------------ the system
Next ==
    \E r \in Reqs :
        \/ CreateCall(r)
        \/ CreateGenerate(r)
        \/ CreateInsert(r)
        \/ RedirectCall(r)
        \/ RedirectIncrement(r)
        \/ DeactivateCall(r)
        \/ DeactivateUpdate(r)

Spec == Init /\ [][Next]_vars

\* The event loop runs every handler that can take its next step.
Fairness ==
    \A r \in Reqs :
        /\ WF_vars(CreateGenerate(r))
        /\ WF_vars(CreateInsert(r))
        /\ WF_vars(RedirectIncrement(r))
        /\ WF_vars(DeactivateUpdate(r))

FairSpec == Spec /\ Fairness

\* The system with GET /stats/ among its requests.
NextStats ==
    \/ Next
    \/ \E r \in Reqs :
        \/ StatsCall(r)
        \/ StatsCount(r)
        \/ StatsSum(r)

SpecStats == Init /\ [][NextStats]_vars

TypeOK ==
    /\ id_seq \in 0..NumReqs
    /\ clock \in 0..NumReqs
    /\ \A r \in Reqs : pc[r] \in {"idle", "generate", "insert", "increment",
                                  "deactivate", "count", "sum", "done"}

\* ------------------------------------------------------------ vocabulary
Done(r, op) == pc[r] = "done" /\ call[r].op = op

\* r is served in this step as a call of handler op.
Called(r, op) == pc[r] = "idle" /\ call'[r].op = op

CodeAlreadyInUse == HTTPException(400, "Custom short URL already in use")

NotFound == HTTPException(404, "URL not found")

\* The create calls that returned a Mapping with code c.
Winners(c) ==
    {r \in Reqs : /\ Done(r, "create")
                  /\ outcome[r].status = 200
                  /\ outcome[r].body[1].short_url = c}

\* The redirect calls on code c that returned the target URL.
Resolved(c) ==
    {r \in Reqs : /\ Done(r, "redirect")
                  /\ call[r].path = c
                  /\ outcome[r].status = HTTP_307_TEMPORARY_REDIRECT}

\* A Deactivate(c) call has succeeded.
Deactivated(c) ==
    \E r \in Reqs : Done(r, "deactivate") /\ call[r].path = c /\ outcome[r].status = 200

VisitsOf(rows, c) == {row.visits : row \in {x \in rows : x.short_url = c}}

\* ---------------------------------------------------------------- claims
CodeUnique ==
    \A r1, r2 \in url_map : r1.short_url = r2.short_url => r1 = r2

NoOverwrite ==
    \A row \in url_map :
        \E kept \in url_map' :
            /\ kept.id = row.id
            /\ kept.short_url = row.short_url
            /\ kept.original_url = row.original_url
            /\ kept.created_at = row.created_at

\* C1: in every reachable state the table holds at most one row per code,
\* active or not, and no step overwrites the code, URL or creation time of
\* a row or removes it.
C1_OneMappingPerCode == []CodeUnique /\ [][NoOverwrite]_vars

\* A second insert of a code was rejected and the table holds the first,
\* deactivated since.
C1_Witness ==
    \E r \in Reqs :
        /\ outcome[r] = Unhandled("UniqueViolationError")
        /\ \E row \in url_map :
            ~row.is_active /\ call[r].custom_path = <<row.short_url>>

\* C2: the visits of an active row equal the number of redirect calls on
\* its code that have returned the target URL (the row starts at 0).
C2_NoLostUpdate ==
    \A row \in url_map :
        row.is_active => row.visits = Cardinality(Resolved(row.short_url))

\* Two redirects of one code have returned and the row counts 2.
C2_Witness ==
    \E row \in url_map :
        /\ row.is_active
        /\ row.visits = 2
        /\ Cardinality(Resolved(row.short_url)) = 2

\* C3 (as claimed): once a Deactivate(c) has succeeded, no step changes the
\* visits of c, and every redirect of c served from then on gets NotFound.
C3_DeactivationSticky ==
    [][\A c \in PathCodes :
          Deactivated(c) =>
            /\ VisitsOf(url_map', c) = VisitsOf(url_map, c)
            /\ \A r \in Reqs :
                 Called(r, "redirect") /\ call'[r].path = c => outcome'[r] = NotFound]_vars

\* C4: at most one create call returns a Mapping with a given code, and
\* once a create call with custom code c has ended, exactly one has; every
\* other ended create call with custom code c got an error status.
C4_ExactlyOneWins ==
    \A c \in GenCodes :
        /\ Cardinality(Winners(c)) <= 1
        /\ \A r \in Reqs :
             Done(r, "create") /\ call[r].custom_path = <<c>> =>
               /\ Cardinality(Winners(c)) = 1
               /\ r \notin Winners(c) => outcome[r].status \in {400, 500}

\* Two create calls of one custom code both passed the existence check:
\* one returned the Mapping, the other was rejected at the INSERT.
C4_Witness ==
    \E r, q \in Reqs :
        /\ Done(r, "create") /\ Done(q, "create")
        /\ Truthy(call[r].custom_path)
        /\ call[r].custom_path = call[q].custom_path
        /\ outcome[r].status = 200
        /\ outcome[q] = Unhandled("UniqueViolationError")

\* C5 (as claimed): a custom-path create whose INSERT the UNIQUE constraint
\* rejects ends with CodeAlreadyInUse.
C5_CustomCollisionIsCodeAlreadyInUse ==
    [][\A r \in Reqs :
          /\ pc[r] = "insert"
          /\ Truthy(call[r].custom_path)
          /\ UniqueViolation(short_url[r])
          /\ pc'[r] # pc[r]
          => outcome'[r] = CodeAlreadyInUse]_vars

\* C6 (as claimed): a random-path create whose INSERT the UNIQUE constraint
\* rejects while a free code remains goes back to generating a candidate
\* and does not end in an error.
C6_RandomCollisionRetries ==
    [][\A r \in Reqs :
          /\ pc[r] = "insert"
          /\ ~Truthy(call[r].custom_path)
          /\ UniqueViolation(short_url[r])
          /\ \E c \in GenCodes : RowsWith(c) = {}
          /\ pc'[r] # pc[r]
          => pc'[r] = "generate"]_vars

\* C7 (as claimed): every create call without a custom code ends.
C7_RandomCreateTerminates ==
    \A r \in Reqs :
        (call[r].op = "create" /\ ~Truthy(call[r].custom_path)) ~> (pc[r] = "done")

\* C8: a create call with custom code c, served while a row with code c
\* exists (active or not), ends with CodeAlreadyInUse and leaves the table
\* as it was.
C8_ExistingCustomCodeRejected ==
    [][\A r \in Reqs, c \in GenCodes :
          /\ Called(r, "create")
          /\ call'[r].custom_path = <<c>>
          /\ RowsWith(c) # {}
          => outcome'[r] = CodeAlreadyInUse /\ url_map' = url_map]_vars

\* A create call that came after the creation and a Deactivate of its
\* custom code got CodeAlreadyInUse; the one row of the code is inactive.
C8_Witness ==
    \E q, d, r \in Reqs :
        /\ q < d /\ d < r
        /\ Done(r, "create") /\ outcome[r] = CodeAlreadyInUse
        /\ Done(d, "deactivate") /\ <<call[d].path>> = call[r].custom_path
        /\ q \in Winners(call[d].path)
        /\ \A row \in RowsWith(call[d].path) : ~row.is_active

\* C9: a redirect call served while its code has no row, or only an
\* inactive one, ends with the one NotFound response and leaves the table
\* as it was.
C9_FailedResolveChangesNothing ==
    [][\A r \in Reqs, c \in PathCodes :
          /\ Called(r, "redirect")
          /\ call'[r].path = c
          /\ \A row \in RowsWith(c) : ~row.is_active
          => outcome'[r] = NotFound /\ url_map' = url_map]_vars

\* A redirect that came after the creation and a successful Deactivate of
\* its code (so the row was there, inactive, at its SELECT) got NotFound.
C9_Witness ==
    \E q, d, r \in Reqs :
        /\ q < d /\ d < r
        /\ q \in Winners(call[r].path)
        /\ Done(d, "deactivate") /\ call[d].path = call[r].path /\ outcome[d].status = 200
        /\ Done(r, "redirect") /\ outcome[r] = NotFound

\* C10: a redirect call that returned a target URL returned the text of
\* the URL of the create call that returned the Mapping of that code.
C10_ResolveReturnsCreatedUrl ==
    \A r \in Reqs :
        Done(r, "redirect") /\ outcome[r].status = HTTP_307_TEMPORARY_REDIRECT =>
            /\ Winners(call[r].path) # {}
            /\ \A q \in Winners(call[r].path) :
                 outcome[r].body = <<StrUrl(call[q].url[1])>>

\* A redirect returned the URL of its code while another code maps to
\* another URL.
C10_Witness ==
    \E r \in Reqs :
        /\ Done(r, "redirect")
        /\ outcome[r].status = HTTP_307_TEMPORARY_REDIRECT
        /\ \E row \in url_map :
            /\ row.short_url # call[r].path
            /\ <<row.original_url>> # outcome[r].body

\* r ends in this step.
Ends(r) == pc[r] # "done" /\ pc'[r] = "done"

\* The row of url_map' that continues row (the same id).
Later(row) == {kept \in url_map' : kept.id = row.id}

C12_StatsTotalsOfOneState ==
    \A r \in Reqs :
        Done(r, "stats") =>
            [count |-> outcome[r].body[1].total_urls,
             visits |-> outcome[r].body[1].total_visits] \in seen

\* C13: a step in which a create call ends with 200 adds exactly one row,
\* of a code no row had, with visits 0, active, the text of the requested
\* URL and, on the custom path, the custom code; the response is that row.
C13_CreatedMapping ==
    [][\A r \in Reqs :
          call'[r].op = "create" /\ Ends(r) /\ outcome'[r].status = 200 =>
            \E row \in url_map' :
                /\ row \notin url_map
                /\ url_map' = url_map \cup {row}
                /\ RowsWith(row.short_url) = {}
                /\ row.visits = 0
                /\ row.is_active
                /\ row.original_url = StrUrl(call[r].url[1])
                /\ Truthy(call[r].custom_path) => row.short_url = call[r].custom_path[1]
                /\ outcome'[r].body = <<URLResponse(row)>>]_vars

\* A custom-path and a random-path create have both returned a Mapping.
C13_Witness ==
    \E r, q \in Reqs :
        /\ Done(r, "create") /\ outcome[r].status = 200
        /\ Truthy(call[r].custom_path)
        /\ Done(q, "create") /\ outcome[q].status = 200
        /\ ~Truthy(call[q].custom_path)

\* C14: a Deactivate served while its code has no row gets NotFound and
\* leaves the table as it was; one that found the row active goes on to
\* its UPDATE, which sets is_active of that row to FALSE, changes no other
\* field and no other row, and returns that row.
C14_Deactivate ==
    [][\A r \in Reqs :
          /\ Called(r, "deactivate") /\ RowsWith(call'[r].path) = {}
             => outcome'[r] = NotFound /\ url_map' = url_map
          /\ Called(r, "deactivate") /\ (\E row \in RowsWith(call'[r].path) : row.is_active)
             => pc'[r] = "deactivate" /\ url_map' = url_map
          /\ pc[r] = "deactivate" /\ Ends(r) =>
               /\ Cardinality(url_map') = Cardinality(url_map)
               /\ \A row \in url_map :
                    IF row.short_url = call[r].path
                      THEN /\ [row EXCEPT !.is_active = FALSE] \in url_map'
                           /\ outcome'[r] = Ok([row EXCEPT !.is_active = FALSE])
                      ELSE row \in url_map']_vars

\* A Deactivate has returned the row of its code, now inactive, while the
\* row of another code is still active.
C14_Witness ==
    \E r \in Reqs :
        /\ Done(r, "deactivate") /\ outcome[r].status = 200
        /\ \E row \in RowsWith(call[r].path) : ~row.is_active
        /\ \E other \in url_map : other.short_url # call[r].path /\ other.is_active

\* C15: a new row is active, and no step of any handler, get_stats
\* included, makes an inactive row active.
C15_IsActiveMonotone ==
    [][\A new \in url_map' :
          /\ (\A row \in url_map : row.id # new.id) => new.is_active
          /\ \A row \in url_map : row.id = new.id /\ ~row.is_active => ~new.is_active]_vars

\* A row is inactive after a Deactivate of its code has returned, and a
\* get_stats has counted it.
C15_Witness ==
    \E row \in url_map :
        /\ ~row.is_active
        /\ \E r \in Reqs :
            /\ Done(r, "deactivate") /\ call[r].path = row.short_url
            /\ outcome[r].status = 200
        /\ \E r \in Reqs : Done(r, "stats") /\ outcome[r].body[1].total_urls = 1

\* C16: visits are never negative; no step lowers the visits of a row, and
\* a step that changes them is the UPDATE of a redirect call of that code
\* whose SELECT found the row active.
C16_VisitsMonotone ==
    /\ [](\A row \in url_map : row.visits >= 0)
    /\ [][\A row \in url_map : \A kept \in Later(row) :
            /\ kept.visits >= row.visits
            /\ kept.visits # row.visits =>
                 \E r \in Reqs :
                    /\ pc[r] = "increment" /\ Ends(r)
                    /\ call[r].op = "redirect"
                    /\ short_url[r] = row.short_url
                    /\ db_url[r][1].is_active]_vars

\* A row has been visited once, and a get_stats has reported the visit.
C16_Witness ==
    \E row \in url_map :
        /\ row.visits = 1
        /\ Cardinality(Resolved(row.short_url)) = 1
        /\ \E r \in Reqs : Done(r, "stats") /\ outcome[r].body[1].total_visits = 1

\* C17: every step of every handler, get_stats included, keeps every row,
\* with its code, original_url and created_at.
C17_MappingFrozen == [][NoOverwrite]_vars

\* The row of a code has been visited, and a later create of that code has
\* been refused: the row still holds the URL of the create that made it.
C17_Witness ==
    \E row \in url_map :
        /\ row.visits = 1
        /\ \E q \in Winners(row.short_url) :
            /\ row.original_url = StrUrl(call[q].url[1])
            /\ \E r \in Reqs :
                /\ q < r /\ Done(r, "create") /\ outcome[r] = CodeAlreadyInUse
                /\ call[r].custom_path = <<row.short_url>>
                /\ call[r].url # call[q].url

\* C18: a Deactivate served while the row of its code is inactive goes on
\* to its UPDATE, and a Deactivate UPDATE that finds the row inactive
\* leaves the table as it was and returns that row.
C18_DeactivateIdempotent ==
    [][\A r \in Reqs :
          /\ /\ Called(r, "deactivate")
             /\ RowsWith(call'[r].path) # {}
             /\ \A row \in RowsWith(call'[r].path) : ~row.is_active
             => pc'[r] = "deactivate" /\ url_map' = url_map
          /\ /\ pc[r] = "deactivate" /\ Ends(r)
             /\ \A row \in RowsWith(call[r].path) : ~row.is_active
             => /\ url_map' = url_map
                /\ \E row \in RowsWith(call[r].path) : outcome'[r] = Ok(row)]_vars

\* Two Deactivate calls of one code have both returned the row, the second
\* served after the first had returned.
C18_Witness ==
    \E q, r \in Reqs :
        /\ q < r
        /\ Done(q, "deactivate") /\ outcome[q].status = 200
        /\ Done(r, "deactivate") /\ outcome[r].status = 200
        /\ call[q].path = call[r].path
        /\ outcome[r] = outcome[q]

\* C19: the UPDATE step of a redirect call of code c ends the call with
\* the redirect response, adds 1 to the visits of the row of c and changes
\* no other field and no other row.
C19_ResolveCountsOnce ==
    [][\A r \in Reqs :
          pc[r] = "increment" /\ Ends(r) =>
            /\ outcome'[r].status = HTTP_307_TEMPORARY_REDIRECT
            /\ Cardinality(url_map') = Cardinality(url_map)
            /\ \A row \in url_map :
                 IF row.short_url = call[r].path
                   THEN [row EXCEPT !.visits = row.visits + 1] \in url_map'
                   ELSE row \in url_map']_vars

\* A redirect has returned: its row counts 1, the row of another code 0.
C19_Witness ==
    \E r \in Reqs :
        /\ Done(r, "redirect") /\ outcome[r].status = HTTP_307_TEMPORARY_REDIRECT
        /\ \E row \in RowsWith(call[r].path) : row.visits = 1
        /\ \E other \in url_map : other.short_url # call[r].path /\ other.visits = 0

\* C20: no row has the empty string as its code, and a create call whose
\* custom_path is the empty string is on the random path: it is never
\* answered CodeAlreadyInUse and a Mapping it returns has a generated code.
C20_EmptyCustomPathIsRandom ==
    /\ \A row \in url_map : row.short_url # ""
    /\ \A r \in Reqs :
         call[r].op = "create" /\ call[r].custom_path = <<"">> =>
           /\ pc[r] \in {"generate", "insert", "done"}
           /\ outcome[r] # CodeAlreadyInUse
           /\ outcome[r].status = 200 => outcome[r].body[1].short_url \in GenCodes

\* A create call with the empty string as custom_path returned a Mapping,
\* the second of the table.
C20_Witness ==
    \E r \in Reqs :
        /\ Done(r, "create")
        /\ call[r].custom_path = <<"">>
        /\ outcome[r].status = 200
        /\ Cardinality(url_map) = 2
====
